---- MODULE Spec2Model ----
(***************************************************************************)
(* The in-memory document store of src/backend/database.py: the class      *)
(* InMemoryCollection (find, find_one, insert_one, update_one,             *)
(* count_documents, aggregate), its two module-level instances and         *)
(* init_database.                                                          *)
(*                                                                         *)
(* A Python value is a node [t, s, items, sub]:                            *)
(*   t = "str"  : the string s               t = "int" : the number s      *)
(*   t = "list" : the list items (of strings)                              *)
(*   t = "dict" : the mapping sub (field name -> node)                     *)
(* A stored document is a mapping field name -> node.  A Python dict that  *)
(* is iterated (self.data) is the record [keys, val]: keys is the          *)
(* insertion order, val the mapping.                                       *)
(*                                                                         *)
(* Stored documents never hold a field named "_id": insert_one pops it,    *)
(* and the update inputs below name ordinary fields only.                  *)
(***************************************************************************)
EXTENDS Integers, Sequences, FiniteSets, TLC

VARIABLES activities_data, teachers_data, last

vars == <<activities_data, teachers_data, last>>

\* Longest list a $push may build (the lists of the program are unbounded).
MaxLen == 3

----------------------------------------------------------------------------
\* Python values

NoSub == [x \in {} |-> 0]

Str(s) == [t |-> "str", s |-> s, items |-> <<>>, sub |-> NoSub]

Num(s) == [t |-> "int", s |-> s, items |-> <<>>, sub |-> NoSub]

List(xs) == [t |-> "list", s |-> "", items |-> xs, sub |-> NoSub]

Dict(f) == [t |-> "dict", s |-> "", items |-> <<>>, sub |-> f]

Range(xs) == {xs[i] : i \in DOMAIN xs}

\* dict(pairs): the mapping with the fields fs and the values of f.
Fields(fs, f) == [x \in fs |-> f[x]]

\* {"_id": ..., "k": v, ...} written as a set of <<field, node>> pairs.
Doc(pairs) == [x \in {p[1] : p \in pairs} |-> (CHOOSE p \in pairs : p[1] = x)[2]]

EmptyDict == [keys |-> <<>>, val |-> NoSub]

\* `item in node`: list membership, dict key membership, substring of a str
\* (the strings of this model are equal whenever one contains the other).
\* An int is not iterable: the callers below raise TypeError before asking.
Contains(node, item) ==
  CASE node.t = "list" -> item \in Range(node.items)
    [] node.t = "dict" -> item \in DOMAIN node.sub
    [] node.t = "str"  -> item = node.s

----------------------------------------------------------------------------
\* InMemoryCollection.find

\* {"_id": key, **value}
Merged(key, value) ==
  [f \in DOMAIN value \cup {"_id"} |->
     IF f \in DOMAIN value THEN value[f] ELSE Str(key)]

\* The inner loop over nested_keys: descends while the current value is a
\* dict holding the segment; ok is the flag `match` after the loop.
RECURSIVE Descend(_, _)
Descend(nested_value, nested_keys) ==
  IF nested_keys = <<>> THEN [ok |-> TRUE, node |-> nested_value]
  ELSE IF nested_value.t = "dict" /\ Head(nested_keys) \in DOMAIN nested_value.sub
       THEN Descend(nested_value.sub[Head(nested_keys)], Tail(nested_keys))
       ELSE [ok |-> FALSE, node |-> nested_value]

\* any(item in nested_value for item in q_value["$in"])
AnyIn(nested_value, cands) ==
  \E i \in DOMAIN cands : Contains(nested_value, cands[i])

\* One clause of the query against the entry (key, value): the value of
\* `match` after it and whether the loop over the clauses breaks.
\* A clause is [key, isin, cands, val]: key is q_key.split("."), isin says that
\* q_value is a dict holding "$in", cands is q_value["$in"], val is q_value
\* otherwise.
Clause(key, value, cl) ==
  IF cl.key = <<"_id">>
  THEN IF Str(key) # cl.val
       THEN [match |-> FALSE, brk |-> TRUE]
       ELSE [match |-> TRUE, brk |-> FALSE]
  ELSE IF Len(cl.key) > 1
  THEN LET r == Descend(Dict(value), cl.key)
       IN IF ~r.ok THEN [match |-> FALSE, brk |-> FALSE]
          ELSE IF cl.isin /\ ~AnyIn(r.node, cl.cands)
               THEN [match |-> FALSE, brk |-> FALSE]
               ELSE [match |-> TRUE, brk |-> FALSE]
  ELSE IF cl.key[1] \notin DOMAIN value \/ value[cl.key[1]] # cl.val
       THEN [match |-> FALSE, brk |-> TRUE]
       ELSE [match |-> TRUE, brk |-> FALSE]

\* MatchFrom with the flag assigned by each clause instead of only cleared:
\* a clause that passes after a failed dotted clause sets it back to True.
RECURSIVE MatchFromOverwrite(_, _, _, _, _)
MatchFromOverwrite(key, value, clauses, i, match) ==
  IF i > Len(clauses) THEN match
  ELSE LET r == Clause(key, value, clauses[i])
       IN IF r.brk THEN r.match
          ELSE MatchFromOverwrite(key, value, clauses, i + 1, r.match)

\* The loop over query.items() from clause i on; match is the flag so far.
\* A clause never sets the flag back to True.
RECURSIVE MatchFrom(_, _, _, _, _)
MatchFrom(key, value, clauses, i, match) ==
  IF i > Len(clauses) THEN match
  ELSE LET r == Clause(key, value, clauses[i])
           m == match /\ r.match
       IN IF r.brk THEN m ELSE MatchFrom(key, value, clauses, i + 1, m)

Matches(key, value, clauses) == MatchFrom(key, value, clauses, 1, TRUE)

\* The entries of data, in iteration order, that satisfy pred.
RECURSIVE FilterKeys(_, _, _, _)
FilterKeys(data, clauses, i, acc) ==
  IF i > Len(data.keys) THEN acc
  ELSE LET k == data.keys[i]
       IN FilterKeys(data, clauses, i + 1,
             IF Matches(k, data.val[k], clauses)
             THEN Append(acc, Merged(k, data.val[k])) ELSE acc)

\* A query is [none, clauses]: none says that the argument is None.
Find(data, query) ==
  IF query.none
  THEN [i \in DOMAIN data.keys |-> Merged(data.keys[i], data.val[data.keys[i]])]
  ELSE FilterKeys(data, query.clauses, 1, <<>>)

\* FindOne taking results[-1].
FindOneLast(data, query) ==
  LET results == Find(data, query)
  IN IF results # <<>> THEN [found |-> TRUE, doc |-> results[Len(results)]]
     ELSE [found |-> FALSE, doc |-> NoSub]

\* results[0] if results else None
FindOne(data, query) ==
  LET results == Find(data, query)
  IN IF results # <<>> THEN [found |-> TRUE, doc |-> results[1]]
     ELSE [found |-> FALSE, doc |-> NoSub]

----------------------------------------------------------------------------
\* InMemoryCollection.insert_one

\* InsertOne with self.data[doc_id].update(doc) for an id already stored.
InsertOneMerge(data, doc) ==
  IF "_id" \notin DOMAIN doc
  THEN [data |-> data, raised |-> "KeyError", inserted_id |-> ""]
  ELSE LET doc_id == doc["_id"].s
           rest == Fields(DOMAIN doc \ {"_id"}, doc)
           old == IF doc_id \in DOMAIN data.val THEN data.val[doc_id] ELSE NoSub
       IN [data |-> [keys |-> IF doc_id \in DOMAIN data.val THEN data.keys
                              ELSE Append(data.keys, doc_id),
                     val |-> [k \in DOMAIN data.val \cup {doc_id} |->
                                IF k = doc_id
                                THEN [f \in DOMAIN old \cup DOMAIN rest |->
                                        IF f \in DOMAIN rest THEN rest[f] ELSE old[f]]
                                ELSE data.val[k]]],
           raised |-> "none",
           inserted_id |-> doc_id]

\* InsertOne with doc.pop("_id", None): a document without id is stored
\* under the key None.
InsertOneDefault(data, doc) ==
  LET doc_id == IF "_id" \in DOMAIN doc THEN doc["_id"].s ELSE "None"
      rest == Fields(DOMAIN doc \ {"_id"}, doc)
  IN [data |-> [keys |-> IF doc_id \in DOMAIN data.val THEN data.keys
                         ELSE Append(data.keys, doc_id),
                val |-> [k \in DOMAIN data.val \cup {doc_id} |->
                           IF k = doc_id THEN rest ELSE data.val[k]]],
      raised |-> "none",
      inserted_id |-> doc_id]

\* doc.pop("_id") raises KeyError when the field is absent; otherwise the
\* rest of doc is stored under the id.  Assigning to a key the dict already
\* holds keeps the key's place in the iteration order.
InsertOne(data, doc) ==
  IF "_id" \notin DOMAIN doc
  THEN [data |-> data, raised |-> "KeyError", inserted_id |-> ""]
  ELSE LET doc_id == doc["_id"].s
           rest == Fields(DOMAIN doc \ {"_id"}, doc)
       IN [data |-> [keys |-> IF doc_id \in DOMAIN data.val THEN data.keys
                              ELSE Append(data.keys, doc_id),
                     val |-> [k \in DOMAIN data.val \cup {doc_id} |->
                                IF k = doc_id THEN rest ELSE data.val[k]]],
           raised |-> "none",
           inserted_id |-> doc_id]

----------------------------------------------------------------------------
\* InMemoryCollection.update_one

\* RemoveFirst dropping every element equal to v.
RECURSIVE RemoveAll(_, _)
RemoveAll(xs, v) ==
  IF xs = <<>> THEN <<>>
  ELSE IF Head(xs) = v THEN RemoveAll(Tail(xs), v)
  ELSE <<Head(xs)>> \o RemoveAll(Tail(xs), v)

\* list.remove(v): drops the first element equal to v.
RECURSIVE RemoveFirst(_, _)
RemoveFirst(xs, v) ==
  IF xs = <<>> THEN <<>>
  ELSE IF Head(xs) = v THEN Tail(xs)
  ELSE <<Head(xs)>> \o RemoveFirst(Tail(xs), v)

\* One (key, value) of the "$push" batch on the stored document d.
\* .append exists on lists only: any other stored value raises.
PushOne(d, key, value) ==
  IF key \in DOMAIN d
  THEN IF d[key].t = "list"
       THEN [doc |-> [d EXCEPT ![key] = List(Append(d[key].items, value))],
             raised |-> "none"]
       ELSE [doc |-> d, raised |-> "AttributeError"]
  ELSE [doc |-> [f \in DOMAIN d \cup {key} |->
                   IF f = key THEN List(<<value>>) ELSE d[f]],
        raised |-> "none"]

\* One (key, value) of the "$pull" batch on the stored document d.
\* `value in` an int raises TypeError; .remove exists on lists only.
PullOne(d, key, value) ==
  IF key \notin DOMAIN d THEN [doc |-> d, raised |-> "none"]
  ELSE IF d[key].t = "int" THEN [doc |-> d, raised |-> "TypeError"]
  ELSE IF ~Contains(d[key], value) THEN [doc |-> d, raised |-> "none"]
  ELSE IF d[key].t = "list"
       THEN [doc |-> [d EXCEPT ![key] = List(RemoveFirst(d[key].items, value))],
             raised |-> "none"]
       ELSE [doc |-> d, raised |-> "AttributeError"]

\* The loop over one batch's items from entry i on; an exception ends it and
\* keeps what the earlier entries did.
RECURSIVE ApplyBatch(_, _, _, _)
ApplyBatch(op, d, batch, i) ==
  IF i > Len(batch) THEN [doc |-> d, raised |-> "none"]
  ELSE LET r == IF op = "$push" THEN PushOne(d, batch[i].key, batch[i].value)
                ELSE PullOne(d, batch[i].key, batch[i].value)
       IN IF r.raised # "none" THEN r ELSE ApplyBatch(op, r.doc, batch, i + 1)

\* ApplyUpdate running the batches in the order of update's keys.
RECURSIVE ApplyInOrder(_, _, _)
ApplyInOrder(d, update, i) ==
  IF i > Len(update.ops) THEN [doc |-> d, raised |-> "none"]
  ELSE LET r == ApplyBatch(update.ops[i], d,
                           IF update.ops[i] = "$push" THEN update.push ELSE update.pull, 1)
       IN IF r.raised # "none" THEN r ELSE ApplyInOrder(r.doc, update, i + 1)

ApplyUpdatePresented(d, update) == ApplyInOrder(d, update, 1)

\* The two `if "$..." in update` blocks: "$push" first, then "$pull".
\* An update is [ops, push, pull]: ops lists the operator keys in the order
\* the caller wrote them, push and pull are the batches as lists of
\* [key, value].
ApplyUpdate(d, update) ==
  LET r1 == IF "$push" \in Range(update.ops)
            THEN ApplyBatch("$push", d, update.push, 1)
            ELSE [doc |-> d, raised |-> "none"]
  IN IF r1.raised # "none" THEN r1
     ELSE IF "$pull" \in Range(update.ops)
          THEN ApplyBatch("$pull", r1.doc, update.pull, 1)
          ELSE r1

\* UpdateOne with the modified_count of 1 returned on every path.
UpdateOneAlwaysOne(data, query, update) ==
  LET doc == FindOne(data, query)
  IN IF doc.found
     THEN LET doc_id == doc.doc["_id"].s
              r == ApplyUpdate(data.val[doc_id], update)
          IN [data |-> [data EXCEPT !.val[doc_id] = r.doc],
              raised |-> r.raised,
              modified_count |-> IF r.raised = "none" THEN 1 ELSE -1,
              doc_id |-> doc_id]
     ELSE [data |-> data, raised |-> "none", modified_count |-> 1, doc_id |-> ""]

\* modified_count is -1 when the call raises instead of returning.
UpdateOne(data, query, update) ==
  LET doc == FindOne(data, query)
  IN IF doc.found
     THEN LET doc_id == doc.doc["_id"].s
              r == ApplyUpdate(data.val[doc_id], update)
          IN [data |-> [data EXCEPT !.val[doc_id] = r.doc],
              raised |-> r.raised,
              modified_count |-> IF r.raised = "none" THEN 1 ELSE -1,
              doc_id |-> doc_id]
     ELSE [data |-> data, raised |-> "none", modified_count |-> 0, doc_id |-> ""]

----------------------------------------------------------------------------
\* InMemoryCollection.count_documents

MatchAll == [none |-> FALSE, clauses |-> <<>>]

\* CountDocuments as len(self.data): the query is ignored.
CountDocumentsAll(data, query) == Len(data.keys)

\* `query or {}`: None and the empty dict both become {}.
CountDocuments(data, query) ==
  Len(Find(data, IF query.none \/ query.clauses = <<>> THEN MatchAll ELSE query))

----------------------------------------------------------------------------
\* InMemoryCollection.aggregate

\* Python's order of the strings that occur as days, ascending.
StrOrder == <<"Friday", "Monday", "Thursday", "Tuesday">>

StrLess(a, b) ==
  (CHOOSE i \in DOMAIN StrOrder : StrOrder[i] = a)
    < (CHOOSE i \in DOMAIN StrOrder : StrOrder[i] = b)

\* Sorted with reverse=True.
RECURSIVE SortedReverse(_)
SortedReverse(S) ==
  IF S = {} THEN <<>>
  ELSE LET m == CHOOSE x \in S : \A y \in S \ {x} : StrLess(y, x)
       IN <<m>> \o SortedReverse(S \ {m})

\* sorted(S)
RECURSIVE Sorted(_)
Sorted(S) ==
  IF S = {} THEN <<>>
  ELSE LET m == CHOOSE x \in S : \A y \in S \ {x} : StrLess(x, y)
       IN <<m>> \o Sorted(S \ {m})

\* The days one stored document adds to the set.
DaysOf(value) ==
  IF "schedule_details" \in DOMAIN value
     /\ Contains(value["schedule_details"], "days")
  THEN Range(value["schedule_details"].sub["days"].items)
  ELSE {}

\* A pipeline is the list of its stages, a stage the set of its keys.
Aggregate(data, pipeline) ==
  IF Len(pipeline) = 3 /\ "$unwind" \in pipeline[1] /\ "$group" \in pipeline[2]
  THEN LET days == UNION {DaysOf(data.val[k]) : k \in DOMAIN data.val}
           order == Sorted(days)
       IN [i \in DOMAIN order |-> Doc({<<"_id", Str(order[i])>>})]
  ELSE <<>>

----------------------------------------------------------------------------
\* The module's data: the seed records and the two collections.  Of the seed
\* data the model keeps two of the thirteen activities and the first of the
\* three teachers, each with the fields the store's operations read.
\* init_database copies only the top level of a seed record, so the stored
\* lists stay shared with initial_activities; the seed is read only while
\* the collection is empty, before any update could have reached them.

\* Argon2's output is opaque to the store: one string per password.
hash_password(password) ==
  CASE password = "art123" -> "$argon2id$art123"
    [] OTHER -> "$argon2id$"

initial_activities ==
  [keys |-> <<"Chess Club", "Debate Team">>,
   val |-> Doc({
     <<"Chess Club", Doc({
        <<"schedule_details", Dict(Doc({
            <<"days", List(<<"Monday", "Friday">>)>>,
            <<"start_time", Str("15:15")>>}))>>,
        <<"max_participants", Num("12")>>,
        <<"participants", List(<<"michael@mergington.edu",
                                 "daniel@mergington.edu">>)>>})>>,
     <<"Debate Team", Doc({
        <<"schedule_details", Dict(Doc({
            <<"days", List(<<"Friday">>)>>,
            <<"start_time", Str("15:30")>>}))>>,
        <<"max_participants", Num("12")>>,
        <<"participants", List(<<"charlotte@mergington.edu",
                                 "amelia@mergington.edu">>)>>})>>})]

initial_teachers ==
  <<Doc({<<"username", Str("mrodriguez")>>,
         <<"display_name", Str("Ms. Rodriguez")>>,
         <<"password", Str(hash_password("art123"))>>,
         <<"role", Str("teacher")>>})>>

\* {"_id": name, **details} and {"_id": teacher["username"], **teacher}
WithId(id, details) ==
  [f \in DOMAIN details \cup {"_id"} |->
     IF f \in DOMAIN details THEN details[f] ELSE id]

\* A run of insert_one calls, one per document of docs, from entry i on.
RECURSIVE InsertAll(_, _, _)
InsertAll(data, docs, i) ==
  IF i > Len(docs) THEN data
  ELSE InsertAll(InsertOne(data, docs[i]).data, docs, i + 1)

\* SeedActivities without the count check.
SeedActivitiesAlways(data) ==
  InsertAll(data,
    [i \in DOMAIN initial_activities.keys |->
       WithId(Str(initial_activities.keys[i]),
              initial_activities.val[initial_activities.keys[i]])], 1)

\* The first block of init_database on activities_collection's store.
SeedActivities(data) ==
  IF CountDocuments(data, MatchAll) = 0
  THEN InsertAll(data,
         [i \in DOMAIN initial_activities.keys |->
            WithId(Str(initial_activities.keys[i]),
                   initial_activities.val[initial_activities.keys[i]])], 1)
  ELSE data

\* The second block of init_database on teachers_collection's store.
SeedTeachers(data) ==
  IF CountDocuments(data, MatchAll) = 0
  THEN InsertAll(data,
         [i \in DOMAIN initial_teachers |->
            WithId(initial_teachers[i]["username"], initial_teachers[i])], 1)
  ELSE data

----------------------------------------------------------------------------
\* The callers' arguments

Collections == {"activities", "teachers"}

Michael == "michael@mergington.edu"

Daniel == "daniel@mergington.edu"

QNone == [none |-> TRUE, clauses |-> <<>>]

QId(id) ==
  [none |-> FALSE,
   clauses |-> <<[key |-> <<"_id">>, isin |-> FALSE, cands |-> <<>>, val |-> Str(id)]>>]

InClause(path, cands) ==
  [key |-> path, isin |-> TRUE, cands |-> cands, val |-> Str("")]

EqClause(field, val) ==
  [key |-> <<field>>, isin |-> FALSE, cands |-> <<>>, val |-> val]

DaysPath == <<"schedule_details", "days">>

QDays(cands) == [none |-> FALSE, clauses |-> <<InClause(DaysPath, cands)>>]

\* {"schedule_details.days": {"$in": cands}, "max_participants": 12}
QDaysThenMax(cands) ==
  [none |-> FALSE,
   clauses |-> <<InClause(DaysPath, cands), EqClause("max_participants", Num("12"))>>]

\* The candidate lists and the paths of the dotted queries.
CandLists == {<<"Monday">>, <<"Tuesday", "Friday">>, <<>>}

Paths == {DaysPath, <<"max_participants", "days">>, <<"schedule_details", "days", "x">>}

QPath(path, cands) == [none |-> FALSE, clauses |-> <<InClause(path, cands)>>]

DottedQueries ==
  {QPath(p, c) : p \in Paths, c \in CandLists} \cup {QDaysThenMax(c) : c \in CandLists}

ActivityQueries ==
  {QNone, MatchAll, QId("Chess Club"), QDays(<<"Monday">>),
   QDaysThenMax(<<"Tuesday", "Friday">>),
   QPath(<<"max_participants", "days">>, <<"Monday">>)}

TeacherQueries ==
  {MatchAll, [none |-> FALSE, clauses |-> <<EqClause("role", Str("teacher"))>>]}

Queries(c) == IF c = "activities" THEN ActivityQueries ELSE TeacherQueries

ActivityUpdateQueries ==
  {MatchAll, QId("Chess Club"), QId("nonexistent"), QDays(<<"Friday">>)}

TeacherUpdateQueries == {QId("mrodriguez")}

UpdateQueries(c) ==
  IF c = "activities" THEN ActivityUpdateQueries ELSE TeacherUpdateQueries

CountQueries(c) ==
  IF c = "activities" THEN {QNone, MatchAll, QId("Chess Club")} ELSE {MatchAll}

KV(key, value) == [key |-> key, value |-> value]

NoOps == [ops |-> <<>>, push |-> <<>>, pull |-> <<>>]

Push(batch) == [ops |-> <<"$push">>, push |-> batch, pull |-> <<>>]

Pull(batch) == [ops |-> <<"$pull">>, push |-> <<>>, pull |-> batch]

\* {"$push": push, "$pull": pull}
PushPull(push, pull) == [ops |-> <<"$push", "$pull">>, push |-> push, pull |-> pull]

\* {"$pull": pull, "$push": push}
PullPush(pull, push) == [ops |-> <<"$pull", "$push">>, push |-> push, pull |-> pull]

ActivityUpdates ==
  {NoOps,
   Push(<<KV("participants", Michael)>>),
   Pull(<<KV("participants", Michael)>>),
   Pull(<<KV("participants", Daniel)>>),
   Pull(<<KV("max_participants", Michael)>>),
   Push(<<KV("participants", Michael), KV("max_participants", Michael)>>),
   PushPull(<<KV("participants", Michael)>>, <<KV("participants", Michael)>>),
   PullPush(<<KV("participants", Michael)>>, <<KV("participants", Michael)>>)}

TeacherUpdates == {Pull(<<KV("role", "teacher")>>), Pull(<<KV("role", "admin")>>)}

Updates(c) == IF c = "activities" THEN ActivityUpdates ELSE TeacherUpdates

\* The documents handed to insert_one; the last of each set has no "_id".
ActivityDocs ==
  {Doc({<<"_id", Str("Chess Club")>>, <<"max_participants", Num("12")>>}),
   Doc({<<"_id", Str("Debate Team")>>,
        <<"schedule_details", Dict(Doc({<<"start_time", Str("15:30")>>}))>>,
        <<"max_participants", Num("12")>>}),
   Doc({<<"max_participants", Num("12")>>})}

TeacherDocs ==
  {WithId(initial_teachers[1]["username"], initial_teachers[1]), initial_teachers[1]}

InsertDocs(c) == IF c = "activities" THEN ActivityDocs ELSE TeacherDocs

Unwind == {"$unwind"}

Group == {"$group"}

Sort == {"$sort"}

Pipelines ==
  {<<Unwind, Group, Sort>>, <<Unwind, Group>>, <<Group, Unwind, Sort>>,
   <<Unwind, Sort, Group>>, <<Unwind, Group, Sort, Sort>>, <<>>}

----------------------------------------------------------------------------
\* The state machine: one action per call; last records the latest call,
\* its arguments and what it returned or raised.

Data(c) == IF c = "activities" THEN activities_data ELSE teachers_data

Store(c, data) ==
  /\ activities_data' = IF c = "activities" THEN data ELSE activities_data
  /\ teachers_data' = IF c = "teachers" THEN data ELSE teachers_data

\* No list of the stored documents is longer than MaxLen.
Bounded(data) ==
  \A k \in DOMAIN data.val : \A f \in DOMAIN data.val[k] :
     Len(data.val[k][f].items) <= MaxLen

Init ==
  /\ activities_data = EmptyDict
  /\ teachers_data = EmptyDict
  /\ last = [op |-> "start"]

find(c, query) ==
  /\ last' = [op |-> "find", coll |-> c, query |-> query,
              result |-> Find(Data(c), query)]
  /\ UNCHANGED <<activities_data, teachers_data>>

insert_one(c, doc) ==
  LET r == InsertOne(Data(c), doc)
  IN /\ Store(c, r.data)
     /\ last' = [op |-> "insert_one", coll |-> c, doc |-> doc,
                 raised |-> r.raised, inserted_id |-> r.inserted_id]

update_one(c, query, update) ==
  LET r == UpdateOne(Data(c), query, update)
  IN /\ Bounded(r.data)
     /\ Store(c, r.data)
     /\ last' = [op |-> "update_one", coll |-> c, query |-> query,
                 update |-> update, raised |-> r.raised,
                 modified_count |-> r.modified_count, doc_id |-> r.doc_id]

count_documents(c, query) ==
  /\ last' = [op |-> "count_documents", coll |-> c, query |-> query,
              count |-> CountDocuments(Data(c), query)]
  /\ UNCHANGED <<activities_data, teachers_data>>

aggregate(c, pipeline) ==
  /\ last' = [op |-> "aggregate", coll |-> c, pipeline |-> pipeline,
              result |-> Aggregate(Data(c), pipeline)]
  /\ UNCHANGED <<activities_data, teachers_data>>

init_database ==
  /\ activities_data' = SeedActivities(activities_data)
  /\ teachers_data' = SeedTeachers(teachers_data)
  /\ last' = [op |-> "init_database"]

Next ==
  \/ \E c \in Collections : \E q \in Queries(c) : find(c, q)
  \/ \E c \in Collections : \E d \in InsertDocs(c) : insert_one(c, d)
  \/ \E c \in Collections : \E q \in UpdateQueries(c) : \E u \in Updates(c) :
       update_one(c, q, u)
  \/ \E c \in Collections : \E q \in CountQueries(c) : count_documents(c, q)
  \/ \E p \in Pipelines : aggregate("activities", p)
  \/ init_database

Spec == Init /\ [][Next]_vars

----------------------------------------------------------------------------
\* What the properties below read of a step

DataNext(c) == IF c = "activities" THEN activities_data' ELSE teachers_data'

\* The step is a call of update_one (every action writes its name to last).
UpdateStep == last'.op = "update_one"

\* The store holds a document k with a field f.
Has(data, k, f) == k \in DOMAIN data.val /\ f \in DOMAIN data.val[k]

\* No stored document satisfies the query.
NoMatch(data, query) ==
  \A k \in DOMAIN data.val : ~query.none /\ ~Matches(k, data.val[k], query.clauses)

\* The id of the first entry, in insertion order, that satisfies the query
\* ("" when there is none).
FirstMatch(data, query) ==
  LET idx == {i \in DOMAIN data.keys :
                query.none \/ Matches(data.keys[i], data.val[data.keys[i]], query.clauses)}
  IN IF idx = {} THEN ""
     ELSE data.keys[CHOOSE i \in idx : \A j \in idx : i <= j]

\* The entries the operator batches of an update carry.
Entries(update) ==
  (IF "$push" \in Range(update.ops) THEN Range(update.push) ELSE {})
    \cup (IF "$pull" \in Range(update.ops) THEN Range(update.pull) ELSE {})

\* xs without its first occurrence of v, which occurs in xs.
WithoutFirst(xs, v) ==
  LET i == CHOOSE n \in DOMAIN xs : xs[n] = v /\ \A j \in 1..(n - 1) : xs[j] # v
  IN SubSeq(xs, 1, i - 1) \o SubSeq(xs, i + 1, Len(xs))

\* The node a dotted path leads to in a stored document, as a set: empty
\* when a segment is missing or a non-mapping is met.
Resolved(value, path) ==
  LET at[i \in 0..Len(path)] ==
        IF i = 0 THEN {Dict(value)}
        ELSE {n.sub[path[i]] :
                n \in {m \in at[i - 1] : m.t = "dict" /\ path[i] \in DOMAIN m.sub}}
  IN at[Len(path)]

\* Some candidate is an element of the sequence the path leads to.
PathHasAny(value, path, cands) ==
  \E n \in Resolved(value, path) : \E i \in DOMAIN cands : cands[i] \in Range(n.items)

\* The stored documents whose id is in the set ids, in insertion order and
\* with their ids merged in, from entry i on.
RECURSIVE Select(_, _, _)
Select(data, ids, i) ==
  IF i > Len(data.keys) THEN <<>>
  ELSE LET k == data.keys[i]
       IN (IF k \in ids
           THEN <<[f \in DOMAIN data.val[k] \cup {"_id"} |->
                     IF f = "_id" THEN Str(k) ELSE data.val[k][f]]>>
           ELSE <<>>) \o Select(data, ids, i + 1)

----------------------------------------------------------------------------
\* C1: after insert_one(D) of a document D with _id I, whatever the
\* collection held before (a document stored under I included),
\* find_one({_id: I}) returns a document whose _id is I and whose other
\* fields are exactly those of D.
C1_RoundTrip ==
  (last.op = "insert_one" /\ "_id" \in DOMAIN last.doc) =>
    LET r == FindOne(Data(last.coll), QId(last.doc["_id"].s))
    IN /\ last.raised = "none"
       /\ r.found
       /\ r.doc["_id"] = last.doc["_id"]
       /\ r.doc = last.doc

\* An insert under "Chess Club" while "Debate Team" came after it in the
\* store: the id was stored before the call, with the seeded participants.
C1_Witness ==
  /\ last.op = "insert_one"
  /\ last.coll = "activities"
  /\ "_id" \in DOMAIN last.doc
  /\ last.doc["_id"] = Str("Chess Club")
  /\ activities_data.keys = <<"Chess Club", "Debate Team">>
  /\ teachers_data.keys # <<>>
  /\ Has(activities_data, "Debate Team", "participants")
  /\ ~Has(activities_data, "Chess Club", "participants")

\* C2: init_database leaves a collection that is not empty as it is: the
\* ids, their order and every document, whatever inserts and updates made
\* of it.
C2_IdempotentSeeding ==
  [][last'.op = "init_database" =>
       /\ activities_data.keys # <<>> => activities_data' = activities_data
       /\ teachers_data.keys # <<>> => teachers_data' = teachers_data]_vars

\* init_database has run on a store whose "Chess Club" is no longer the
\* seed record.
C2_Witness ==
  /\ last.op = "init_database"
  /\ "Chess Club" \in DOMAIN activities_data.val
  /\ activities_data.val["Chess Club"] # initial_activities.val["Chess Club"]

\* C3 as claimed: update_one returns modified_count 0 exactly when no
\* stored document matches, then changes nothing and raises nothing, and
\* returns modified_count 1 whenever some document matches.
C3_Original ==
  [][UpdateStep =>
       LET data == Data(last'.coll)
           none == NoMatch(data, last'.query)
       IN /\ (last'.modified_count = 0) <=> none
          /\ none => (DataNext(last'.coll) = data /\ last'.raised = "none")
          /\ ~none => last'.modified_count = 1]_vars

\* C3, amended: update_one returns modified_count 0 exactly when no stored
\* document matches, then changes nothing and raises nothing; when some
\* document matches it returns modified_count 1, or raises AttributeError
\* or TypeError, and raises only if a batch names a field of the matched
\* document that holds something other than a list.
C3_ZeroIffNoMatch ==
  [][UpdateStep =>
       LET data == Data(last'.coll)
           none == NoMatch(data, last'.query)
       IN /\ (last'.modified_count = 0) <=> none
          /\ none => (DataNext(last'.coll) = data /\ last'.raised = "none")
          /\ ~none =>
               \/ last'.modified_count = 1 /\ last'.raised = "none"
               \/ /\ last'.raised \in {"AttributeError", "TypeError"}
                  /\ \E e \in Entries(last'.update) :
                       LET d == data.val[FirstMatch(data, last'.query)]
                       IN e.key \in DOMAIN d /\ d[e.key].t # "list"]_vars

\* An update whose query matches nothing has run on a store of two
\* documents.
C3_Witness ==
  /\ last.op = "update_one"
  /\ last.query = QId("nonexistent")
  /\ last.update = Push(<<KV("participants", Michael)>>)
  /\ last.modified_count = 0
  /\ Len(activities_data.keys) = 2

\* C4: on the matched document, $push {f: v} appends v to the list f holds
\* and creates f = [v] when f is absent; $pull {f: v} removes the first
\* occurrence of v from the list f holds and keeps the order of the rest,
\* and changes nothing when f is absent or its list does not contain v.
C4_ArrayOperators ==
  [][(UpdateStep /\ last'.doc_id # "") =>
       LET u == last'.update
           d == Data(last'.coll).val[last'.doc_id]
           e == DataNext(last'.coll).val[last'.doc_id]
       IN /\ (u.ops = <<"$push">> /\ Len(u.push) = 1) =>
               LET f == u.push[1].key
                   v == u.push[1].value
               IN /\ (f \in DOMAIN d /\ d[f].t = "list") =>
                       e[f] = List(d[f].items \o <<v>>)
                  /\ f \notin DOMAIN d => (f \in DOMAIN e /\ e[f] = List(<<v>>))
          /\ (u.ops = <<"$pull">> /\ Len(u.pull) = 1) =>
               LET f == u.pull[1].key
                   v == u.pull[1].value
               IN /\ (f \in DOMAIN d /\ d[f].t = "list" /\ v \in Range(d[f].items)) =>
                       e[f] = List(WithoutFirst(d[f].items, v))
                  /\ f \notin DOMAIN d => e = d
                  /\ (f \in DOMAIN d /\ d[f].t = "list" /\ v \notin Range(d[f].items)) =>
                       e = d]_vars

\* A pull of michael has left [daniel, michael]: the list held michael
\* twice, around daniel, and lost the first one.
C4_Witness ==
  /\ last.op = "update_one"
  /\ last.update = Pull(<<KV("participants", Michael)>>)
  /\ last.doc_id = "Chess Club"
  /\ last.modified_count = 1
  /\ Has(activities_data, "Chess Club", "participants")
  /\ activities_data.val["Chess Club"]["participants"] = List(<<Daniel, Michael>>)

\* C5: in every state and for every query, the absent and the empty one
\* included, count_documents(Q) is the length of find(Q).
C5_CountConsistency ==
  /\ \A c \in Collections : \A q \in Queries(c) \cup UpdateQueries(c) \cup DottedQueries :
       CountDocuments(Data(c), q) = Len(Find(Data(c), q))
  /\ last.op = "count_documents" =>
       last.count = Len(Find(Data(last.coll), last.query))

\* count_documents has run with the absent query and with a query that
\* matches one document of two.
C5_Witness ==
  /\ last.op = "count_documents"
  /\ last.coll = "activities"
  /\ last.query = QId("Chess Club")
  /\ last.count = 1
  /\ Len(activities_data.keys) = 2

\* C6: for a pipeline of 3 stages, $unwind first and $group second,
\* aggregate returns one single-field record per distinct value of the
\* documents' schedule_details.days lists, each once, ascending; for any
\* other pipeline it returns the empty list.
C6_Aggregate ==
  last.op = "aggregate" =>
    LET data == Data(last.coll)
        p == last.pipeline
        r == last.result
        days == {x \in Range(StrOrder) :
                   \E k \in DOMAIN data.val :
                      /\ "schedule_details" \in DOMAIN data.val[k]
                      /\ "days" \in DOMAIN data.val[k]["schedule_details"].sub
                      /\ x \in Range(data.val[k]["schedule_details"].sub["days"].items)}
    IN IF Len(p) = 3 /\ "$unwind" \in p[1] /\ "$group" \in p[2]
       THEN /\ \A i \in DOMAIN r : DOMAIN r[i] = {"_id"}
            /\ {r[i]["_id"].s : i \in DOMAIN r} = days
            /\ \A i, j \in DOMAIN r : i < j => StrLess(r[i]["_id"].s, r[j]["_id"].s)
       ELSE r = <<>>

\* The fixed pipeline on the seeded store: Friday occurs in both documents,
\* Monday is stored before it.
C6_Witness ==
  /\ last.op = "aggregate"
  /\ last.pipeline = <<Unwind, Group, Sort>>
  /\ last.result = <<Doc({<<"_id", Str("Friday")>>}), Doc({<<"_id", Str("Monday")>>})>>
  /\ activities_data.keys = <<"Chess Club", "Debate Team">>
  /\ Has(activities_data, "Debate Team", "schedule_details")
  /\ "days" \in DOMAIN activities_data.val["Debate Team"]["schedule_details"].sub

\* C7: find({"a.b": {$in: C}}) returns exactly the stored documents in
\* which every segment of the path is found in a mapping and the list
\* reached holds a candidate of C; a document that fails the path fails the
\* query, also when a further clause follows that it satisfies.
C7_DottedIn ==
  /\ \A p \in Paths : \A c \in CandLists :
       Find(activities_data, QPath(p, c))
         = Select(activities_data,
                  {k \in DOMAIN activities_data.val :
                     PathHasAny(activities_data.val[k], p, c)}, 1)
  /\ \A c \in CandLists :
       Find(activities_data, QDaysThenMax(c))
         = Select(activities_data,
                  {k \in DOMAIN activities_data.val :
                     /\ PathHasAny(activities_data.val[k], DaysPath, c)
                     /\ Has(activities_data, k, "max_participants")
                     /\ activities_data.val[k]["max_participants"] = Num("12")}, 1)
  /\ (last.op = "find" /\ last.query \in DottedQueries) =>
       last.result = Find(Data(last.coll), last.query)

\* find with the dotted clause and a following clause has returned one of
\* two documents: the other has max_participants = 12 and no days.
C7_Witness ==
  /\ last.op = "find"
  /\ last.query = QDaysThenMax(<<"Tuesday", "Friday">>)
  /\ Len(last.result) = 1
  /\ activities_data.keys = <<"Chess Club", "Debate Team">>
  /\ last.result[1]["_id"] = Str("Chess Club")
  /\ Has(activities_data, "Debate Team", "schedule_details")
  /\ "days" \notin DOMAIN activities_data.val["Debate Team"]["schedule_details"].sub
  /\ activities_data.val["Debate Team"]["max_participants"] = Num("12")

\* C8: insert_one of a document without _id raises and leaves both
\* collections as they were.
C8_InsertWithoutId ==
  [][(last'.op = "insert_one" /\ "_id" \notin DOMAIN last'.doc) =>
       /\ last'.raised = "KeyError"
       /\ activities_data' = activities_data
       /\ teachers_data' = teachers_data]_vars

\* Such an insert has failed on a store that holds documents.
C8_Witness ==
  /\ last.op = "insert_one"
  /\ last.coll = "activities"
  /\ "_id" \notin DOMAIN last.doc
  /\ last.raised = "KeyError"
  /\ Len(activities_data.keys) = 2

\* C9 as claimed: the batches of one update run in the order the update
\* presents them, so pull of v before push of v leaves v in the list.
C9_Original ==
  [][(UpdateStep /\ last'.doc_id # "" /\ last'.raised = "none") =>
       \A f \in {"participants"} : \A v \in {Michael} :
          last'.update = PullPush(<<KV(f, v)>>, <<KV(f, v)>>) =>
            LET e == DataNext(last'.coll).val[last'.doc_id]
            IN f \in DOMAIN e /\ v \in Range(e[f].items)]_vars

\* C9, amended: when one update carries a $push and a $pull batch, the
\* $push batch runs first and the $pull batch second, on its result, in
\* whichever order the update presents them: push of v and pull of v on
\* the list f leave the list with v appended and the first v removed.
C9_PushThenPull ==
  [][(UpdateStep /\ last'.doc_id # "" /\ last'.raised = "none") =>
       \A f \in {"participants"} : \A v \in {Michael} :
          last'.update \in {PullPush(<<KV(f, v)>>, <<KV(f, v)>>),
                            PushPull(<<KV(f, v)>>, <<KV(f, v)>>)} =>
            LET d == Data(last'.coll).val[last'.doc_id]
                e == DataNext(last'.coll).val[last'.doc_id]
                xs == IF f \in DOMAIN d THEN d[f].items ELSE <<>>
            IN f \in DOMAIN e /\ e[f] = List(WithoutFirst(xs \o <<v>>, v))]_vars

\* An update presenting the pull before the push has run on a document
\* whose list did not hold v, and the list does not hold v.
C9_Witness ==
  /\ last.op = "update_one"
  /\ last.update = PullPush(<<KV("participants", Michael)>>, <<KV("participants", Michael)>>)
  /\ last.doc_id = "Chess Club"
  /\ last.modified_count = 1
  /\ Has(activities_data, "Chess Club", "participants")
  /\ activities_data.val["Chess Club"]["participants"] = List(<<Daniel>>)

\* C10: update_one changes at most the first document, in insertion order,
\* that matches the query, the one find_one returns, and of it only the
\* fields the batches name; the ids, their order, every other document
\* and the other collection stay as they were.
C10_Frame ==
  [][UpdateStep =>
       LET c == last'.coll
           data == Data(c)
           next == DataNext(c)
           t == FirstMatch(data, last'.query)
           named == {e.key : e \in Entries(last'.update)}
       IN /\ last'.doc_id = t
          /\ next.keys = data.keys
          /\ DOMAIN next.val = DOMAIN data.val
          /\ \A k \in DOMAIN data.val \ {t} : next.val[k] = data.val[k]
          /\ t # "" =>
               \A f \in (DOMAIN data.val[t] \cup DOMAIN next.val[t]) \ named :
                  /\ f \in DOMAIN data.val[t]
                  /\ f \in DOMAIN next.val[t]
                  /\ next.val[t][f] = data.val[t][f]
          /\ \A o \in Collections \ {c} : DataNext(o) = Data(o)]_vars

\* The match-all query has pushed onto "Debate Team", stored before "Chess
\* Club", which matches too and keeps having no participants.
C10_Witness ==
  /\ last.op = "update_one"
  /\ last.query = MatchAll
  /\ last.update = Push(<<KV("participants", Michael)>>)
  /\ last.doc_id = "Debate Team"
  /\ activities_data.keys = <<"Debate Team", "Chess Club">>
  /\ Has(activities_data, "Debate Team", "participants")
  /\ activities_data.val["Debate Team"]["participants"] = List(<<Michael>>)
  /\ ~Has(activities_data, "Chess Club", "participants")

====
